---- MODULE Spec2Model ----
(***************************************************************************)
(* Model of the research-paper search service: ResearchPaperProcessor      *)
(* (src/pdf_processor.py) and the HTTP handlers that drive it              *)
(* (src/main.py).                                                          *)
(*                                                                         *)
(* Texts are sequences of one-character strings, so that lower(), split()  *)
(* and str.count() are computed the way Python computes them.              *)
(***************************************************************************)
EXTENDS Integers, Sequences, FiniteSets, Bags, TLC

VARIABLES
    uploads,                \* set of file names in upload_dir (on disk)
    processed_papers,       \* self.processed_papers: dict in insertion order
    processed_papers_file,  \* content of vector_db/processed_papers.json
    vectorstore,            \* self.vectorstore is not None
    qa_chain,               \* self.qa_chain is not None
    collection,             \* the persistent Chroma collection (bag of entries)
    now,                    \* number of requests so far (the clock)
    result,                 \* what the last request returned to its caller
    env,                    \* os.environ: ADMIN_TOKEN and PUBLIC_TOKEN
    request,                \* route and token of the last HTTP request
    file_bytes,             \* processed_papers.json piece by piece, as the
                            \* write() calls of the server processes leave it
    workers                 \* the server processes over one vector_db: each
                            \* one's ledger and how far its save has got

vars == <<uploads, processed_papers, processed_papers_file, vectorstore,
          qa_chain, collection, now, result, env, request, file_bytes,
          workers>>

----------------------------------------------------------------------------
(* Bounds of the model                                                     *)

\* number of requests in a run of the ingestion specification
MaxOps == 3

\* number of requests in a run of the query, summary, listing and HTTP
\* specifications
MaxQueryOps == 2

----------------------------------------------------------------------------
(* Program constants                                                       *)

chunk_size == 1000
chunk_overlap == 200
RetrieverK == 4
SnippetChars == 2000
DisplayChars == 200
TopPapers == 3
XyyWeight == 2

\* the QA chain built without its source documents
no_source_documents == FALSE

\* RetrievalQA is built with return_source_documents=True
return_source_documents == TRUE

----------------------------------------------------------------------------
(* Files and their text                                                    *)

Files == {"a.pdf", "b.pdf", "c.pdf", "d.pdf"}

\* a name a client may try to upload that does not end in ".pdf"
NotPdfName == "notes.txt"

\* the files the ingestion specification uploads and reprocesses
IngestFiles == {"a.pdf", "b.pdf"}

UploadNames == IngestFiles \cup {NotPdfName}

\* file.filename.endswith('.pdf')
EndsWithPdf(name) == name \in Files

\* loader.load(): one text per page
Pages(f) ==
    CASE f = "a.pdf" -> << <<"X", "Y", "Y">> >>
      [] f = "b.pdf" -> << <<"a", "b">>, <<"b">> >>
      [] f = "c.pdf" -> << <<"x", "y", "y", " ", "b">> >>
      [] f = "d.pdf" -> << <<"a", "a">>, << >> >>

----------------------------------------------------------------------------
(* Text helpers                                                            *)

Take(s, n) == SubSeq(s, 1, IF n < Len(s) THEN n ELSE Len(s))

Drop(s, n) == SubSeq(s, n + 1, Len(s))

RECURSIVE SumLen(_)
SumLen(ss) == IF ss = << >> THEN 0 ELSE Len(Head(ss)) + SumLen(Tail(ss))

\* one page through the splitter: a text that fits is one chunk, a longer one
\* is cut into windows that overlap by chunk_overlap; empty pages give nothing
RECURSIVE SplitText(_)
SplitText(text) ==
    IF Len(text) = 0 THEN << >>
    ELSE IF Len(text) <= chunk_size THEN <<text>>
    ELSE <<Take(text, chunk_size)>>
         \o SplitText(Drop(text, chunk_size - chunk_overlap))

\* text_splitter.split_documents(documents): page by page
RECURSIVE SplitDocuments(_)
SplitDocuments(pages) ==
    IF pages = << >> THEN << >>
    ELSE SplitText(Head(pages)) \o SplitDocuments(Tail(pages))

\* the chunks process_pdf gets for each file: loader.load() then
\* text_splitter.split_documents(documents)
Texts == [f \in Files |-> SplitDocuments(Pages(f))]

----------------------------------------------------------------------------
(* The ledger: a Python dict, kept as a sequence of records in insertion   *)
(* order with pairwise different file names                                *)

HasKey(d, f) == \E i \in 1..Len(d) : d[i].filename = f

KeyIndex(d, f) == CHOOSE i \in 1..Len(d) : d[i].filename = f

\* d[f] = rec : an existing key keeps its position, a new one goes last
SetItem(d, rec) ==
    IF HasKey(d, rec.filename)
    THEN [d EXCEPT ![KeyIndex(d, rec.filename)] = rec]
    ELSE Append(d, rec)

Keys(d) == {d[i].filename : i \in 1..Len(d)}

\* processed_papers.json: absent, a complete JSON document holding a
\* mapping, or a document cut short
NoFile == [exists |-> FALSE, complete |-> FALSE, mapping |-> << >>]

JsonFile(d) == [exists |-> TRUE, complete |-> TRUE, mapping |-> d]

TornFile == [exists |-> TRUE, complete |-> FALSE, mapping |-> << >>]

\* _load_processed_papers: {} when the file is absent, the mapping it holds,
\* or {} when json.load raises on it
LoadProcessedPapers(file) ==
    IF ~file.exists THEN << >>
    ELSE IF file.complete THEN file.mapping
    ELSE << >>

\* how a _save_processed_papers call can end: written, open() raised, or
\* json.dump raised after open(..., 'w') had truncated the file
SaveOutcomes == {"ok", "open_error", "dump_error"}

\* _save_processed_papers: an exception is logged and swallowed
SaveProcessedPapers(file, d, save) ==
    CASE save = "ok" -> JsonFile(d)
      [] save = "open_error" -> file
      [] save = "dump_error" -> TornFile

----------------------------------------------------------------------------
(* The Chroma collection: a bag of entries.  stale is history kept for the *)
(* properties: it is set on every entry that is in the collection when a   *)
(* reprocess_all_papers call begins.                                       *)

Entry(f, i) == [source |-> f, chunk_id |-> i, stale |-> FALSE]

\* vectorstore.add_documents(texts), texts carrying source/chunk_id metadata
AddDocuments(coll, f, texts) ==
    coll (+) SetToBag({Entry(f, i - 1) : i \in 1..Len(texts)})

MarkStale(coll) ==
    LET old == {[e EXCEPT !.stale = TRUE] : e \in BagToSet(coll)}
    IN  [o \in old |->
            (IF BagIn([o EXCEPT !.stale = FALSE], coll)
             THEN coll[[o EXCEPT !.stale = FALSE]] ELSE 0)
          + (IF BagIn(o, coll) THEN coll[o] ELSE 0)]

SourcesIn(coll) == {e.source : e \in BagToSet(coll)}

----------------------------------------------------------------------------
(* process_pdf                                                             *)

\* where a process_pdf call can fail
Stages == {"load", "split", "add"}

Failures == {"none"} \cup Stages

ErrorOf(stage) ==
    CASE stage = "load" -> "LoadError"
      [] stage = "split" -> "ChunkError"
      [] stage = "add" -> "IndexError"

\* the state process_pdf works on
ProcState(pp, file, coll) ==
    [processed_papers |-> pp, processed_papers_file |-> file, collection |-> coll]

\* an except clause that names the loader's exception only
ProcessCatchesLoadError(exc) == exc = "LoadError"

\* except Exception as e: every exception of the body is caught
ProcessCatches(exc) == TRUE

\* the try body of process_pdf; exc is the exception it ends with, if any
ProcessPdfBody(st, vs, f, t, fail, save) ==
    LET texts == Texts[f]
        rec == [filename |-> f,
                processed_at |-> t,
                chunks_processed |-> Len(texts),
                total_characters |-> SumLen(texts),
                status |-> "processed"]
        coll == IF vs THEN AddDocuments(st.collection, f, texts)
                ELSE st.collection
        pp == SetItem(st.processed_papers, rec)
    IN  IF fail \in {"load", "split"} \/ (fail = "add" /\ vs)
        THEN [st |-> st, exc |-> ErrorOf(fail), ret |-> [status |-> "none"]]
        ELSE [st |-> ProcState(pp,
                        SaveProcessedPapers(st.processed_papers_file, pp, save),
                        coll),
              exc |-> "none",
              ret |-> [status |-> "success",
                       filename |-> f,
                       chunks_processed |-> Len(texts),
                       total_characters |-> SumLen(texts)]]

\* process_pdf: the body inside try/except
ProcessPdf(st, vs, f, t, fail, save) ==
    LET b == ProcessPdfBody(st, vs, f, t, fail, save)
    IN  IF b.exc # "none" /\ ProcessCatches(b.exc)
        THEN [st |-> b.st, exc |-> "none",
              ret |-> [status |-> "error", filename |-> f, error |-> b.exc]]
        ELSE b

----------------------------------------------------------------------------
(* The environment's tokens, the last HTTP request, and the ledger file at *)
(* the level of write() calls.  The specifications of the processor's      *)
(* operations start from the values below and leave them alone; the HTTP   *)
(* specification and the persistence specification are built on them.     *)

\* os.getenv(name) of a variable that is not set
Unset == "None"

NoEnv == [ADMIN_TOKEN |-> Unset, PUBLIC_TOKEN |-> Unset]

NoRequest == [endpoint |-> "none", token |-> Unset]

\* processed_papers.json does not exist
AbsentBytes == [exists |-> FALSE, pieces |-> << >>]

\* the server processes that share the vector_db directory
Workers == {1, 2}

\* a server process that is not inside _save_processed_papers
IdleWorker(d) == [ledger |-> d, pc |-> "idle", pos |-> 0, saved |-> FALSE]

ProcessorOnlyInit ==
    /\ env = NoEnv
    /\ request = NoRequest
    /\ file_bytes = AbsentBytes
    /\ workers = [p \in Workers |-> IdleWorker(<< >>)]

ProcessorOnly == UNCHANGED <<env, request, file_bytes, workers>>

----------------------------------------------------------------------------
(* Construction                                                            *)

Init ==
    /\ uploads \in SUBSET IngestFiles
    /\ processed_papers = << >>
    /\ processed_papers_file = NoFile
    /\ vectorstore \in BOOLEAN
    /\ qa_chain = vectorstore
    /\ collection = EmptyBag
    /\ now = 0
    /\ result = [op |-> "init"]
    /\ ProcessorOnlyInit

\* ResearchPaperProcessor.__init__ in a new server process: the ledger is
\* read back from its file, the vector store is opened again over the
\* persistent directory
Restart(initOk) ==
    /\ now' = now + 1
    /\ processed_papers' = LoadProcessedPapers(processed_papers_file)
    /\ vectorstore' = initOk
    /\ qa_chain' = initOk
    /\ result' = [op |-> "init"]
    /\ UNCHANGED <<uploads, processed_papers_file, collection>>

----------------------------------------------------------------------------
(* POST /upload                                                            *)

upload_pdf(name, fail, save) ==
    /\ now' = now + 1
    /\ IF ~EndsWithPdf(name)
       THEN /\ result' = [op |-> "upload", http |-> 400, filename |-> name]
            /\ UNCHANGED <<uploads, processed_papers, processed_papers_file,
                           vectorstore, qa_chain, collection>>
       ELSE LET r == ProcessPdf(ProcState(processed_papers,
                                          processed_papers_file, collection),
                                vectorstore, name, now + 1, fail, save)
            IN  /\ uploads' = uploads \cup {name}
                /\ processed_papers' = r.st.processed_papers
                /\ processed_papers_file' = r.st.processed_papers_file
                /\ collection' = r.st.collection
                /\ result' = [op |-> "upload", http |-> 200, filename |-> name,
                              raised |-> r.exc # "none",
                              processing_result |-> r.ret]
                /\ UNCHANGED <<vectorstore, qa_chain>>

\* a PDF is taken out of upload_dir from outside the service; query_papers
\* and get_paper_summary test pdf_path.exists() for this
RemoveFile(f) ==
    /\ f \in uploads
    /\ now' = now + 1
    /\ uploads' = uploads \ {f}
    /\ result' = [op |-> "remove", filename |-> f]
    /\ UNCHANGED <<processed_papers, processed_papers_file, vectorstore,
                   qa_chain, collection>>

----------------------------------------------------------------------------
(* reprocess_all_papers                                                    *)

\* list(upload_dir.glob("*.pdf")): the files in the order the directory
\* gives them, which is any order
GlobOrders(S) ==
    {o \in [1..Cardinality(S) -> S] : \A i, j \in 1..Cardinality(S) :
                                          i # j => o[i] # o[j]}

\* a loop that gives up at the first file whose result is an error
RECURSIVE ProcessLoopStops(_, _, _, _, _, _, _)
ProcessLoopStops(acc, vs, files, t, failing, stage, save) ==
    IF \/ files = << >>
       \/ acc.exc # "none"
       \/ (acc.results # << >>
           /\ acc.results[Len(acc.results)].status = "error")
    THEN acc
    ELSE LET f == Head(files)
             r == ProcessPdf(acc.st, vs, f, t,
                             IF f \in failing THEN stage ELSE "none", save)
         IN  ProcessLoopStops([st |-> r.st,
                               results |-> IF r.exc = "none"
                                           THEN Append(acc.results, r.ret)
                                           ELSE acc.results,
                               exc |-> r.exc],
                              vs, Tail(files), t, failing, stage, save)

\* for pdf_file in pdf_files: results.append(self.process_pdf(pdf_file))
\* acc = [st, results, exc]; an exception out of process_pdf ends the loop
RECURSIVE ProcessLoop(_, _, _, _, _, _, _)
ProcessLoop(acc, vs, files, t, failing, stage, save) ==
    IF files = << >> \/ acc.exc # "none" THEN acc
    ELSE LET f == Head(files)
             r == ProcessPdf(acc.st, vs, f, t,
                             IF f \in failing THEN stage ELSE "none", save)
         IN  ProcessLoop([st |-> r.st,
                          results |-> IF r.exc = "none"
                                      THEN Append(acc.results, r.ret)
                                      ELSE acc.results,
                          exc |-> r.exc],
                         vs, Tail(files), t, failing, stage, save)

\* reprocess_all_papers when delete_collection (if called) succeeds.
\* init1Ok, init2Ok: whether _initialize_vectorstore succeeds at line 430 and,
\* if it is called again, at line 438
reprocess_all_papers(pdf_files, failing, stage, init1Ok, init2Ok, save) ==
    LET cleared == IF vectorstore THEN EmptyBag ELSE MarkStale(collection)
        file0 == SaveProcessedPapers(processed_papers_file, << >>, save)
        run == ProcessLoop([st |-> ProcState(<< >>, file0, cleared),
                            results |-> << >>, exc |-> "none"],
                           init1Ok, pdf_files, now + 1, failing, stage, save)
        vs == IF run.exc = "none" /\ ~init1Ok THEN init2Ok ELSE init1Ok
    IN  /\ Len(pdf_files) = Cardinality(uploads)
        /\ {pdf_files[i] : i \in 1..Len(pdf_files)} = uploads
        /\ init1Ok => init2Ok
        /\ now' = now + 1
        /\ processed_papers' = run.st.processed_papers
        /\ processed_papers_file' = run.st.processed_papers_file
        /\ collection' = run.st.collection
        /\ vectorstore' = vs
        /\ qa_chain' = vs
        /\ result' = IF run.exc = "none"
                     THEN [op |-> "reprocess", status |-> "completed",
                           process_raised |-> FALSE,
                           total_files |-> Len(pdf_files),
                           results |-> run.results]
                     ELSE [op |-> "reprocess", status |-> "error",
                           process_raised |-> TRUE,
                           error |-> run.exc]
        /\ UNCHANGED uploads

\* reprocess_all_papers when vectorstore.delete_collection() raises: the
\* outer except returns an error and nothing has been cleared
reprocess_delete_fails ==
    /\ vectorstore
    /\ now' = now + 1
    /\ collection' = MarkStale(collection)
    /\ result' = [op |-> "reprocess", status |-> "error",
                  process_raised |-> FALSE,
                  error |-> "IndexError"]
    /\ UNCHANGED <<uploads, processed_papers, processed_papers_file,
                   vectorstore, qa_chain>>

----------------------------------------------------------------------------
(* query_papers: text and scoring                                          *)

\* the questions the model asks
Questions ==
    { <<"z">>,
      <<"b">>,
      <<"X", "Y", "Y">>,
      <<"a", " ", "b">> }

\* str.lower() on the characters the texts use
LowerChar(c) ==
    CASE c = "X" -> "x"
      [] c = "Y" -> "y"
      [] c = "A" -> "a"
      [] c = "B" -> "b"
      [] OTHER -> c

Lower(text) == [i \in 1..Len(text) |-> LowerChar(text[i])]

IsSpace(c) == c \in {" ", "\n"}

\* str.split(): the maximal runs of non-whitespace characters
RECURSIVE SplitFrom(_, _, _)
SplitFrom(text, i, word) ==
    IF i > Len(text)
    THEN IF word = << >> THEN << >> ELSE <<word>>
    ELSE IF IsSpace(text[i])
         THEN (IF word = << >> THEN << >> ELSE <<word>>)
              \o SplitFrom(text, i + 1, << >>)
         ELSE SplitFrom(text, i + 1, Append(word, text[i]))

Split(text) == SplitFrom(text, 1, << >>)

\* str.count(term): occurrences that do not overlap, from the left
RECURSIVE CountFrom(_, _, _)
CountFrom(term, text, i) ==
    IF i + Len(term) - 1 > Len(text) THEN 0
    ELSE IF SubSeq(text, i, i + Len(term) - 1) = term
         THEN 1 + CountFrom(term, text, i + Len(term))
         ELSE CountFrom(term, text, i + 1)

Count(term, text) == CountFrom(term, text, 1)

\* "\n".join(...)
RECURSIVE Join(_)
Join(pages) ==
    IF pages = << >> THEN << >>
    ELSE IF Len(pages) = 1 THEN Head(pages)
    ELSE Head(pages) \o <<"\n">> \o Join(Tail(pages))

\* paper_content of each file
PaperContent == [f \in Files |-> Join(Pages(f))]

xyy_terms ==
    << <<"x", "y", "y">>,
       <<"4", "7", ",", "x", "y", "y">>,
       <<"j", "a", "c", "o", "b">>,
       <<"s", "y", "n", "d", "r", "o", "m", "e">>,
       <<"t", "r", "i", "s", "o", "m", "y">>,
       <<"c", "h", "r", "o", "m", "o", "s", "o", "m", "e">> >>

\* for term in terms: if term in content: score += content.count(term) * w
RECURSIVE SumCounts(_, _, _)
SumCounts(terms, content, w) ==
    IF terms = << >> THEN 0
    ELSE Count(Head(terms), content) * w + SumCounts(Tail(terms), content, w)

\* relevance_score of a paper for a question
RelevanceScore(question, f) ==
    LET content_lower == Lower(PaperContent[f])
    IN  SumCounts(Split(Lower(question)), content_lower, 1)
        + SumCounts(xyy_terms, content_lower, XyyWeight)

Ellipsis == <<".", ".", ".">>

\* paper_content[:2000] + "..." if it is longer, else paper_content
RelevantSnippet(f) ==
    IF Len(PaperContent[f]) > SnippetChars
    THEN Take(PaperContent[f], SnippetChars) \o Ellipsis
    ELSE PaperContent[f]

\* the loop over self.processed_papers.items(): processed papers whose file
\* exists and loads, with a positive score, in ledger order
RECURSIVE RelevantPapers(_, _, _, _)
RelevantPapers(d, question, disk, unreadable) ==
    IF d = << >> THEN << >>
    ELSE LET f == Head(d).filename
             score == RelevanceScore(question, f)
         IN  (IF /\ Head(d).status = "processed"
                 /\ f \in disk
                 /\ f \notin unreadable
                 /\ score > 0
              THEN << [filename |-> f, relevance_score |-> score,
                       content |-> RelevantSnippet(f)] >>
              ELSE << >>)
             \o RelevantPapers(Tail(d), question, disk, unreadable)

\* an insertion that puts p before the elements of equal score
RECURSIVE InsertBeforeEqual(_, _)
InsertBeforeEqual(sorted, p) ==
    IF sorted = << >> THEN <<p>>
    ELSE IF Head(sorted).relevance_score > p.relevance_score
         THEN <<Head(sorted)>> \o InsertBeforeEqual(Tail(sorted), p)
         ELSE <<p>> \o sorted

\* put p into a list already sorted by descending score, after every
\* element whose score is at least p's
RECURSIVE InsertByScore(_, _)
InsertByScore(sorted, p) ==
    IF sorted = << >> THEN <<p>>
    ELSE IF Head(sorted).relevance_score >= p.relevance_score
         THEN <<Head(sorted)>> \o InsertByScore(Tail(sorted), p)
         ELSE <<p>> \o sorted

\* relevant_papers.sort(key=relevance_score, reverse=True): stable
RECURSIVE SortByScore(_)
SortByScore(ps) ==
    IF ps = << >> THEN << >>
    ELSE InsertByScore(SortByScore(SubSeq(ps, 1, Len(ps) - 1)), ps[Len(ps)])

\* relevant_papers[:3] after the sort
TopPapersOf(d, question, disk, unreadable) ==
    Take(SortByScore(RelevantPapers(d, question, disk, unreadable)), TopPapers)

PdfLink(f) == <<"/paper/", f>>

SummaryLink(f) == <<"/paper/", f, "/summary">>

\* the enhanced_sources built for the top papers
PaperSources(top) ==
    [i \in 1..Len(top) |->
        [content |-> Take(top[i].content, DisplayChars) \o Ellipsis,
         source |-> top[i].filename,
         chunk_id |-> i - 1,
         pdf_link |-> PdfLink(top[i].filename),
         summary_link |-> SummaryLink(top[i].filename)]]

\* the one source of the general answer
GeneralSource ==
    [content |-> "General knowledge about XYY syndrome",
     source |-> "AI Knowledge Base",
     chunk_id |-> 0]

----------------------------------------------------------------------------
(* query_papers: the index path                                            *)

\* what the retriever can hand back: k entries of the collection, or all
\* of them when it holds fewer
Retrievals(coll) ==
    LET n == IF BagCardinality(coll) < RetrieverK
             THEN BagCardinality(coll) ELSE RetrieverK
    IN  {B \in SubBag(coll) : BagCardinality(B) = n}

RECURSIVE BagToSeq(_)
BagToSeq(B) ==
    IF BagToSet(B) = {} THEN << >>
    ELSE LET e == CHOOSE x \in BagToSet(B) : TRUE
         IN  <<e>> \o BagToSeq(B (-) SetToBag({e}))

\* the sources built from result["source_documents"]
DocSources(docs) ==
    LET ds == BagToSeq(docs)
    IN  [i \in 1..Len(ds) |->
            [content |-> Take(Texts[ds[i].source][ds[i].chunk_id + 1],
                              DisplayChars) \o Ellipsis,
             source |-> ds[i].source,
             chunk_id |-> ds[i].chunk_id]]

\* how the call self.qa_chain({"query": question}) can end
QaOutcomes == {"ok", "retrieval_error", "llm_error"}

\* how the fallback's provider client can behave
FallbackOutcomes == {"ok", "client_error", "llm_error"}

QaError(qa) ==
    IF qa = "retrieval_error" THEN "IndexUnavailable" ELSE "ProviderError"

FallbackError(fb) ==
    IF fb = "client_error" THEN "ClientError" ELSE "ProviderError"

----------------------------------------------------------------------------
(* query_papers                                                            *)
(*                                                                         *)
(* A result carries, besides answer, sources and question, the history the *)
(* properties read: whether an exception left the function (raised), which *)
(* return statement produced it (path), how the index path went (index,    *)
(* retrieved), how many completion calls were made (llm_calls), whether    *)
(* the completion provider failed (provider_failed) and which papers the   *)
(* loader could not read again (unreadable).                               *)

\* the inner except of the fallback (lines 295-301)
FallbackExcept(question, e, hist) ==
    [op |-> "query", raised |-> FALSE, question |-> question,
     answer |-> [kind |-> "sorry", detail |-> e],
     sources |-> << >>,
     path |-> "fallback", hist |-> hist]

\* the outer except (lines 303-309)
OuterExcept(question, e, hist) ==
    [op |-> "query", raised |-> FALSE, question |-> question,
     answer |-> [kind |-> "error_processing_query", detail |-> e],
     sources |-> << >>,
     path |-> "outer_except", hist |-> hist]

History(index, retrieved, calls, failed, unreadable) ==
    [index |-> index, retrieved |-> retrieved, llm_calls |-> calls,
     provider_failed |-> failed, unreadable |-> unreadable]

\* the fallback block (lines 180-301), entered after calls completion calls
QueryFallback(question, d, disk, fb, unreadable, calls, index, retrieved) ==
    LET top == TopPapersOf(d, question, disk, unreadable)
    IN  IF fb = "client_error"
        THEN FallbackExcept(question, FallbackError(fb),
                 History(index, retrieved, calls, TRUE, unreadable))
        ELSE IF fb = "llm_error"
        THEN FallbackExcept(question, FallbackError(fb),
                 History(index, retrieved, calls + 1, TRUE, unreadable))
        ELSE [op |-> "query", raised |-> FALSE, question |-> question,
              answer |-> [kind |-> "completion"],
              sources |-> IF top # << >> THEN PaperSources(top)
                          ELSE <<GeneralSource>>,
              path |-> "fallback",
              hist |-> History(index, retrieved, calls + 1, FALSE, unreadable)]

\* query_papers(question).  qa, docs: how the QA chain ends and what its
\* retriever returns; fb, unreadable: how the provider behaves in the
\* fallback and which papers the loader cannot read again
QueryPapers(question, d, disk, vs, chain, qa, docs, fb, unreadable) ==
    IF chain /\ vs
    THEN IF qa # "ok"
         THEN OuterExcept(question, QaError(qa),
                  History("failed", 0, IF qa = "llm_error" THEN 1 ELSE 0,
                          qa = "llm_error", {}))
         ELSE IF return_source_documents
              THEN [op |-> "query", raised |-> FALSE, question |-> question,
                    answer |-> [kind |-> "completion"],
                    sources |-> DocSources(docs),
                    path |-> "index",
                    hist |-> History("searched", BagCardinality(docs), 1,
                                     FALSE, {})]
              ELSE QueryFallback(question, d, disk, fb, unreadable, 1,
                                 "searched", BagCardinality(docs))
    ELSE QueryFallback(question, d, disk, fb, unreadable, 0, "unavailable", 0)

query_papers(question, qa, docs, fb, unreadable) ==
    /\ now' = now + 1
    /\ IF qa_chain /\ vectorstore /\ qa = "ok"
       THEN docs \in Retrievals(collection)
       ELSE docs = EmptyBag
    /\ unreadable \subseteq Keys(processed_papers)
    /\ result' = QueryPapers(question, processed_papers, uploads, vectorstore,
                             qa_chain, qa, docs, fb, unreadable)
    /\ UNCHANGED <<uploads, processed_papers, processed_papers_file,
                   vectorstore, qa_chain, collection>>

----------------------------------------------------------------------------

Next ==
    \/ \E initOk \in BOOLEAN : now < MaxOps /\ ProcessorOnly /\ Restart(initOk)
    \/ \E name \in UploadNames, fail \in Failures, save \in SaveOutcomes :
          now < MaxOps /\ ProcessorOnly /\ upload_pdf(name, fail, save)
    \/ \E f \in IngestFiles : now < MaxOps /\ ProcessorOnly /\ RemoveFile(f)
    \/ \E pdf_files \in GlobOrders(uploads), failing \in SUBSET uploads,
          init1Ok \in BOOLEAN, save \in SaveOutcomes :
          \E stage \in (IF failing = {} THEN {"load"} ELSE Stages),
             init2Ok \in (IF init1Ok THEN {TRUE} ELSE BOOLEAN) :
             /\ now < MaxOps /\ ProcessorOnly
             /\ reprocess_all_papers(pdf_files, failing, stage,
                                     init1Ok, init2Ok, save)
    \/ now < MaxOps /\ ProcessorOnly /\ reprocess_delete_fails

Spec == Init /\ [][Next]_vars

----------------------------------------------------------------------------
(* The query specification: all four files, ingestion without failures     *)

InitQuery ==
    /\ uploads \in SUBSET Files
    /\ processed_papers = << >>
    /\ processed_papers_file = NoFile
    /\ vectorstore \in BOOLEAN
    /\ qa_chain = vectorstore
    /\ collection = EmptyBag
    /\ now = 0
    /\ result = [op |-> "init"]
    /\ ProcessorOnlyInit

\* the inputs of query_papers that the path taken reads
QueryInputs ==
    IF qa_chain /\ vectorstore
    THEN {[qa |-> "ok", docs |-> docs, fb |-> "ok", unreadable |-> {}] :
             docs \in Retrievals(collection)}
         \cup {[qa |-> qa, docs |-> EmptyBag, fb |-> "ok", unreadable |-> {}] :
                 qa \in QaOutcomes \ {"ok"}}
    ELSE {[qa |-> "ok", docs |-> EmptyBag, fb |-> fb, unreadable |-> u] :
             fb \in FallbackOutcomes,
             u \in {{}} \cup {{f} : f \in Keys(processed_papers)}}

NextQuery ==
    \/ \E initOk \in BOOLEAN : now < MaxQueryOps /\ ProcessorOnly /\ Restart(initOk)
    \/ \E f \in Files : now < MaxQueryOps /\ ProcessorOnly /\ RemoveFile(f)
    \/ \E pdf_files \in GlobOrders(uploads), init1Ok \in BOOLEAN :
          \E init2Ok \in (IF init1Ok THEN {TRUE} ELSE BOOLEAN) :
          /\ now < MaxQueryOps /\ ProcessorOnly
          /\ reprocess_all_papers(pdf_files, {}, "load", init1Ok, init2Ok, "ok")
    \/ \E question \in Questions, inp \in QueryInputs :
          /\ now < MaxQueryOps /\ ProcessorOnly
          /\ query_papers(question, inp.qa, inp.docs, inp.fb, inp.unreadable)

SpecQuery == InitQuery /\ [][NextQuery]_vars

----------------------------------------------------------------------------
(* GET /paper/{filename}/summary and get_paper_summary                     *)

\* text_content[:4000]
SummaryChars == 4000

\* summary_query: the request for a summary, naming the file
SummaryQuery(f) == <<"s", "u", "m", "m", "a", "r", "y", " ", f>>

\* the text handed to the completion provider on the direct path
SummaryText(f) ==
    IF Len(PaperContent[f]) > SummaryChars
    THEN Take(PaperContent[f], SummaryChars) \o Ellipsis
    ELSE PaperContent[f]

\* how the direct path's client, loader and completion call can end
DirectOutcomes == {"ok", "client_error", "load_error", "llm_error"}

DirectError(direct) ==
    CASE direct = "client_error" -> "ClientError"
      [] direct = "load_error" -> "LoadError"
      [] direct = "llm_error" -> "ProviderError"

\* the one source of a summary made from the full text
FullTextSource(f) ==
    [content |-> "Summary generated from full paper content",
     source |-> f,
     chunk_id |-> 0]

\* the direct path (lines 337-384), entered after calls completion calls
SummaryDirect(f, disk, direct, calls) ==
    IF direct = "client_error"
    THEN [op |-> "summary", http |-> 200, filename |-> f,
          summary |-> [kind |-> "unable", detail |-> DirectError(direct)],
          sources |-> << >>, path |-> "direct_except", llm_calls |-> calls]
    ELSE IF f \notin disk
    THEN [op |-> "summary", http |-> 200, filename |-> f,
          summary |-> [kind |-> "file_not_found"],
          sources |-> << >>, path |-> "direct", llm_calls |-> calls]
    ELSE IF direct = "load_error"
    THEN [op |-> "summary", http |-> 200, filename |-> f,
          summary |-> [kind |-> "unable", detail |-> DirectError(direct)],
          sources |-> << >>, path |-> "direct_except", llm_calls |-> calls]
    ELSE IF direct = "llm_error"
    THEN [op |-> "summary", http |-> 200, filename |-> f,
          summary |-> [kind |-> "unable", detail |-> DirectError(direct)],
          sources |-> << >>, path |-> "direct_except",
          llm_calls |-> calls + 1]
    ELSE [op |-> "summary", http |-> 200, filename |-> f,
          summary |-> [kind |-> "completion", of |-> SummaryText(f)],
          sources |-> <<FullTextSource(f)>>, path |-> "direct",
          llm_calls |-> calls + 1]

\* get_paper_summary(filename) as the route returns it: the route passes
\* the dictionary on, so the response status is 200 on every path.
\* qa, docs: as for query_papers; direct: how the direct path ends
GetPaperSummary(f, d, disk, vs, chain, qa, docs, direct) ==
    IF ~HasKey(d, f)
    THEN [op |-> "summary", http |-> 200, filename |-> f,
          summary |-> [kind |-> "not_found_or_not_processed"],
          sources |-> << >>, path |-> "not_in_ledger", llm_calls |-> 0]
    ELSE IF vs /\ chain
    THEN LET r == QueryPapers(SummaryQuery(f), d, disk, vs, chain,
                              qa, docs, "ok", {})
         IN  IF r.sources # << >>
             THEN [op |-> "summary", http |-> 200, filename |-> f,
                   summary |-> r.answer,
                   sources |-> r.sources, path |-> "index",
                   llm_calls |-> r.hist.llm_calls]
             ELSE SummaryDirect(f, disk, direct, r.hist.llm_calls)
    ELSE SummaryDirect(f, disk, direct, 0)

get_paper_summary(filename, qa, docs, direct) ==
    /\ now' = now + 1
    /\ IF qa_chain /\ vectorstore /\ qa = "ok"
          /\ HasKey(processed_papers, filename)
       THEN docs \in Retrievals(collection)
       ELSE docs = EmptyBag
    /\ result' = GetPaperSummary(filename, processed_papers, uploads,
                                 vectorstore, qa_chain, qa, docs, direct)
    /\ UNCHANGED <<uploads, processed_papers, processed_papers_file,
                   vectorstore, qa_chain, collection>>

\* the inputs of get_paper_summary that the path taken reads
SummaryInputs(filename) ==
    IF qa_chain /\ vectorstore /\ HasKey(processed_papers, filename)
    THEN {[qa |-> "ok", docs |-> docs, direct |-> direct] :
             docs \in Retrievals(collection), direct \in DirectOutcomes}
         \cup {[qa |-> qa, docs |-> EmptyBag, direct |-> direct] :
                 qa \in QaOutcomes \ {"ok"}, direct \in DirectOutcomes}
    ELSE {[qa |-> "ok", docs |-> EmptyBag, direct |-> direct] :
             direct \in DirectOutcomes}

NextSummary ==
    \/ \E initOk \in BOOLEAN : now < MaxQueryOps /\ ProcessorOnly /\ Restart(initOk)
    \/ \E f \in Files : now < MaxQueryOps /\ ProcessorOnly /\ RemoveFile(f)
    \/ \E pdf_files \in GlobOrders(uploads), init1Ok \in BOOLEAN :
          \E init2Ok \in (IF init1Ok THEN {TRUE} ELSE BOOLEAN) :
          /\ now < MaxQueryOps /\ ProcessorOnly
          /\ reprocess_all_papers(pdf_files, {}, "load", init1Ok, init2Ok, "ok")
    \/ \E filename \in Files : \E inp \in SummaryInputs(filename) :
          /\ now < MaxQueryOps /\ ProcessorOnly
          /\ get_paper_summary(filename, inp.qa, inp.docs, inp.direct)

SpecSummary == InitQuery /\ [][NextSummary]_vars

----------------------------------------------------------------------------
(* list_processed_papers, over the ledgers a processed_papers.json found   *)
(* at start can hold: the file is read as it is, whoever wrote it          *)

\* the values of a record's status field
Statuses == {"processed", "error"}

\* a record as json.load gives it back
LoadedRecord(f, status) ==
    [filename |-> f,
     processed_at |-> 0,
     chunks_processed |-> IF status = "processed" THEN Len(Texts[f]) ELSE 0,
     total_characters |-> IF status = "processed" THEN SumLen(Texts[f]) ELSE 0,
     status |-> status]

\* the mappings of a ledger file: any file names in any order, each record
\* with either status
LedgerFiles ==
    UNION {{[i \in 1..Len(o) |-> LoadedRecord(o[i], st[o[i]])] :
               o \in GlobOrders(S), st \in [S -> Statuses]} :
           S \in SUBSET Files}

\* a listing that keeps a record whatever its status
KeepsEveryStatus(info) == TRUE

\* if info.get("status") == "processed"
StatusIsProcessed(info) == info.status = "processed"

\* the item list_processed_papers appends for a record
ListItem(info) ==
    [filename |-> info.filename,
     processed |-> TRUE,
     status |-> "available",
     processed_at |-> info.processed_at,
     chunks_processed |-> info.chunks_processed]

ListProcessedPapers(d) ==
    LET kept == SelectSeq(d, StatusIsProcessed)
    IN  [i \in 1..Len(kept) |-> ListItem(kept[i])]

list_processed_papers ==
    /\ now' = now + 1
    /\ result' = [op |-> "list", papers |-> ListProcessedPapers(processed_papers)]
    /\ UNCHANGED <<uploads, processed_papers, processed_papers_file,
                   vectorstore, qa_chain, collection>>

InitList ==
    /\ processed_papers_file \in {JsonFile(d) : d \in LedgerFiles}
    /\ processed_papers = LoadProcessedPapers(processed_papers_file)
    /\ uploads = Keys(processed_papers)
    /\ vectorstore \in BOOLEAN
    /\ qa_chain = vectorstore
    /\ collection = EmptyBag
    /\ now = 0
    /\ result = [op |-> "init"]
    /\ ProcessorOnlyInit

NextList ==
    \/ \E initOk \in BOOLEAN : now < MaxQueryOps /\ ProcessorOnly /\ Restart(initOk)
    \/ now < MaxQueryOps /\ ProcessorOnly /\ list_processed_papers

SpecList == InitList /\ [][NextList]_vars

----------------------------------------------------------------------------
(* The HTTP routes of main.py: the token check of each route, then its     *)
(* handler                                                                 *)

\* tokens a client can send: the two defaults, the two configured ones and
\* one that is neither
Tokens == {"admin123", "public123", "adm-secret", "pub-secret", "wrong"}

\* the environment with each of the two variables set or not
EnvConfigs ==
    {[ADMIN_TOKEN |-> a, PUBLIC_TOKEN |-> p] :
        a \in {Unset, "adm-secret"}, p \in {Unset, "pub-secret"}}

\* os.getenv(name)
Getenv(name) == env[name]

\* os.getenv(name, default)
GetenvOr(name, default) == IF env[name] = Unset THEN default ELSE env[name]

ADMIN_TOKEN == GetenvOr("ADMIN_TOKEN", "admin123")

PUBLIC_TOKEN == GetenvOr("PUBLIC_TOKEN", "public123")

\* verify_token passes (otherwise it raises 401)
verify_token(credentials) == credentials \in {ADMIN_TOKEN, PUBLIC_TOKEN}

\* verify_admin_token passes (otherwise it raises 403)
verify_admin_token(credentials) == credentials = ADMIN_TOKEN

\* the token test of view_paper passes (otherwise it raises 401); the
\* token is a query parameter and is compared with os.getenv's values
ViewPaperToken(token) ==
    /\ token # Unset
    /\ token # ""
    /\ token \in {Getenv("ADMIN_TOKEN"), Getenv("PUBLIC_TOKEN")}

\* the response of a request whose token check raised
Denied(status) ==
    /\ now' = now + 1
    /\ result' = [op |-> "denied", http |-> status]
    /\ UNCHANGED <<uploads, processed_papers, processed_papers_file,
                   vectorstore, qa_chain, collection>>

Requested(endpoint, token) ==
    /\ request' = [endpoint |-> endpoint, token |-> token]
    /\ UNCHANGED <<env, file_bytes, workers>>

\* POST /upload
post_upload(token, name, fail, save) ==
    /\ Requested("POST /upload", token)
    /\ IF verify_admin_token(token)
       THEN upload_pdf(name, fail, save)
       ELSE Denied(403)

\* POST /reprocess
post_reprocess(token, pdf_files, init1Ok, init2Ok) ==
    /\ Requested("POST /reprocess", token)
    /\ IF verify_admin_token(token)
       THEN reprocess_all_papers(pdf_files, {}, "load", init1Ok, init2Ok, "ok")
       ELSE /\ Denied(403)
            /\ pdf_files = << >>
            /\ init1Ok /\ init2Ok

\* the listing of GET /papers: the files of upload_dir in glob order, each
\* marked with whether list_processed_papers has it
ListPapers(order, d) ==
    LET processed == ListProcessedPapers(d)
    IN  [i \in 1..Len(order) |->
            IF \E j \in 1..Len(processed) : processed[j].filename = order[i]
            THEN [filename |-> order[i], processed |-> TRUE,
                  status |-> "available"]
            ELSE [filename |-> order[i], processed |-> FALSE,
                  status |-> "needs_processing"]]

\* GET /papers
list_papers(token, order) ==
    /\ Requested("GET /papers", token)
    /\ IF verify_token(token)
       THEN /\ order \in GlobOrders(uploads)
            /\ now' = now + 1
            /\ result' = [op |-> "papers", http |-> 200,
                          papers |-> ListPapers(order, processed_papers)]
            /\ UNCHANGED <<uploads, processed_papers, processed_papers_file,
                           vectorstore, qa_chain, collection>>
       ELSE /\ Denied(401)
            /\ order = << >>

\* str.strip(): s without its leading and trailing whitespace
RECURSIVE Strip(_)
Strip(s) ==
    IF s = << >> THEN s
    ELSE IF IsSpace(Head(s)) THEN Strip(Tail(s))
    ELSE IF IsSpace(s[Len(s)]) THEN Strip(SubSeq(s, 1, Len(s) - 1))
    ELSE s

\* message.get("message", ""): the questions, and messages that are empty
\* or hold whitespace only
Messages == Questions \cup {<< >>, <<" ">>, <<" ", "\n">>}

\* except Exception as e (line 193): HTTPException is an Exception, so the
\* 400 raised inside the try body is caught as well
ChatCatches(exc) == TRUE

\* the try body of chat_with_papers; exc is the exception it ends with
ChatBody(question, d, disk, vs, chain, qa, docs, fb, unreadable) ==
    IF Strip(question) = << >>
    THEN [exc |-> "HTTPException(400)", http |-> 400, engine_called |-> FALSE]
    ELSE LET r == QueryPapers(question, d, disk, vs, chain, qa, docs, fb,
                              unreadable)
         IN  [exc |-> "none", http |-> 200, engine_called |-> TRUE,
              response |-> r.answer, sources |-> r.sources]

\* chat_with_papers for a request whose token passed
ChatWithPapers(question, d, disk, vs, chain, qa, docs, fb, unreadable) ==
    LET b == ChatBody(question, d, disk, vs, chain, qa, docs, fb, unreadable)
    IN  IF b.exc = "none"
        THEN [op |-> "chat", http |-> 200, question |-> question,
              engine_called |-> TRUE,
              response |-> b.response, sources |-> b.sources]
        ELSE IF ChatCatches(b.exc)
        THEN [op |-> "chat", http |-> 500, question |-> question,
              engine_called |-> b.engine_called,
              detail |-> <<"Error processing query: ", b.exc>>]
        ELSE [op |-> "chat", http |-> b.http, question |-> question,
              engine_called |-> b.engine_called,
              detail |-> <<b.exc>>]

\* POST /chat
chat_with_papers(token, question, qa, docs, fb, unreadable) ==
    /\ Requested("POST /chat", token)
    /\ IF verify_token(token)
       THEN /\ IF qa_chain /\ vectorstore /\ qa = "ok"
                  /\ Strip(question) # << >>
               THEN docs \in Retrievals(collection)
               ELSE docs = EmptyBag
            /\ unreadable \subseteq Keys(processed_papers)
            /\ now' = now + 1
            /\ result' = ChatWithPapers(question, processed_papers, uploads,
                                        vectorstore, qa_chain, qa, docs, fb,
                                        unreadable)
            /\ UNCHANGED <<uploads, processed_papers, processed_papers_file,
                           vectorstore, qa_chain, collection>>
       ELSE /\ Denied(401)
            /\ qa = "ok" /\ docs = EmptyBag /\ fb = "ok" /\ unreadable = {}

\* GET /paper/{filename}
view_paper(filename, token) ==
    /\ Requested("GET /paper/{filename}", token)
    /\ IF ViewPaperToken(token)
       THEN /\ now' = now + 1
            /\ result' = [op |-> "view", filename |-> filename,
                          http |-> IF filename \in uploads THEN 200 ELSE 404]
            /\ UNCHANGED <<uploads, processed_papers, processed_papers_file,
                           vectorstore, qa_chain, collection>>
       ELSE Denied(401)

\* GET /paper/{filename}/summary
paper_summary(token, filename, qa, docs, direct) ==
    /\ Requested("GET /paper/{filename}/summary", token)
    /\ IF verify_token(token)
       THEN get_paper_summary(filename, qa, docs, direct)
       ELSE /\ Denied(401)
            /\ qa = "ok" /\ docs = EmptyBag /\ direct = "ok"

InitHttp ==
    /\ uploads \in SUBSET IngestFiles
    /\ processed_papers = << >>
    /\ processed_papers_file = NoFile
    /\ vectorstore \in BOOLEAN
    /\ qa_chain = vectorstore
    /\ collection = EmptyBag
    /\ now = 0
    /\ result = [op |-> "start"]
    /\ env \in EnvConfigs
    /\ request = NoRequest
    /\ file_bytes = AbsentBytes
    /\ workers = [p \in Workers |-> IdleWorker(<< >>)]

NextHttp ==
    \/ \E token \in Tokens, name \in UploadNames :
          now < MaxQueryOps /\ post_upload(token, name, "none", "ok")
    \/ \E token \in Tokens, pdf_files \in GlobOrders(uploads) \cup {<< >>},
          init1Ok \in BOOLEAN :
          \E init2Ok \in (IF init1Ok THEN {TRUE} ELSE BOOLEAN) :
          now < MaxQueryOps /\ post_reprocess(token, pdf_files, init1Ok, init2Ok)
    \/ \E token \in Tokens, order \in GlobOrders(uploads) \cup {<< >>} :
          now < MaxQueryOps /\ list_papers(token, order)
    \/ \E token \in Tokens, question \in Messages :
          \E inp \in QueryInputs \cup {[qa |-> "ok", docs |-> EmptyBag,
                                         fb |-> "ok", unreadable |-> {}]} :
          /\ now < MaxQueryOps
          /\ chat_with_papers(token, question, inp.qa, inp.docs, inp.fb,
                              inp.unreadable)
    \/ \E token \in Tokens \cup {""}, filename \in IngestFiles :
          now < MaxQueryOps /\ view_paper(filename, token)
    \/ \E token \in Tokens, filename \in IngestFiles :
          \E inp \in SummaryInputs(filename)
                     \cup {[qa |-> "ok", docs |-> EmptyBag, direct |-> "ok"]} :
          /\ now < MaxQueryOps
          /\ paper_summary(token, filename, inp.qa, inp.docs, inp.direct)

SpecHttp == InitHttp /\ [][NextHttp]_vars

----------------------------------------------------------------------------
(* _save_processed_papers write by write.  open(file, 'w') creates or      *)
(* truncates the file and gives the caller a position of its own; json.dump *)
(* hands the document over in pieces, which reach the file in one or more  *)
(* write() calls at that position; the file is not truncated again.  A     *)
(* server process that dies leaves the file as the last write() left it    *)
(* and is started again.                                                   *)

\* number of process_pdf, reprocess and crash events in a run of the
\* persistence specification
MaxPersistOps == 3

\* a piece of the file that is not a key with its record
Piece(kind) ==
    [kind |-> kind, key |-> "",
     value |-> [filename |-> "", processed_at |-> 0, chunks_processed |-> 0,
                total_characters |-> 0, status |-> ""]]

\* json.dump(d, f, indent=2) as the pieces it writes: the opening brace,
\* one piece for each key with its record, the closing brace
Document(d) ==
    <<Piece("{")>>
    \o [i \in 1..Len(d) |->
           [kind |-> "item", key |-> d[i].filename, value |-> d[i]]]
    \o <<Piece("}")>>

\* a piece of the file no write() has filled
Hole == Piece("hole")

IsRecordPiece(x) == x.kind = "item"

\* the mapping of key/value pieces: a repeated key keeps its first position
\* and takes the last value, as json.load gives it
RECURSIVE Mapping(_)
Mapping(ps) ==
    IF ps = << >> THEN << >>
    ELSE SetItem(Mapping(SubSeq(ps, 1, Len(ps) - 1)), ps[Len(ps)].value)

\* json.load succeeds on these pieces
IsDocument(ps) ==
    /\ Len(ps) >= 2
    /\ ps[1].kind = "{"
    /\ ps[Len(ps)].kind = "}"
    /\ \A i \in 2..(Len(ps) - 1) : IsRecordPiece(ps[i])

\* the file as the ledger operations see it
AbstractFile(fb) ==
    IF ~fb.exists THEN NoFile
    ELSE IF IsDocument(fb.pieces)
    THEN JsonFile(Mapping(SubSeq(fb.pieces, 2, Len(fb.pieces) - 1)))
    ELSE TornFile

\* write(data) at position pos of a file holding pieces
WriteAt(pieces, pos, data) ==
    IF pos >= Len(pieces)
    THEN pieces \o [i \in 1..(pos - Len(pieces)) |-> Hole] \o data
    ELSE SubSeq(pieces, 1, pos) \o data
         \o SubSeq(pieces, pos + Len(data) + 1, Len(pieces))

\* the record process_pdf stores for f at time t
ProcessedRecord(f, t) ==
    [filename |-> f,
     processed_at |-> t,
     chunks_processed |-> Len(Texts[f]),
     total_characters |-> SumLen(Texts[f]),
     status |-> "processed"]

\* the coarse variables follow the file and the first process
Follow ==
    /\ processed_papers_file' = AbstractFile(file_bytes')
    /\ processed_papers' = workers'[1].ledger
    /\ UNCHANGED <<uploads, vectorstore, qa_chain, collection, env, request>>

\* process_pdf in process p up to the call of _save_processed_papers
\* (lines 122-128)
BeginProcess(p, f) ==
    /\ workers[p].pc = "idle"
    /\ now' = now + 1
    /\ workers' = [workers EXCEPT ![p] =
                      [ledger |-> SetItem(workers[p].ledger,
                                          ProcessedRecord(f, now + 1)),
                       pc |-> "save", pos |-> 0, saved |-> FALSE,
                       in_flight |-> f, persisted |-> << >>,
                       alone |-> TRUE]]
    /\ UNCHANGED <<file_bytes, result>>
    /\ Follow

\* reprocess_all_papers in process p up to its first save (lines 426-427)
BeginClear(p) ==
    /\ workers[p].pc = "idle"
    /\ now' = now + 1
    /\ workers' = [workers EXCEPT ![p] =
                      [ledger |-> << >>,
                       pc |-> "save", pos |-> 0, saved |-> FALSE,
                       in_flight |-> "none", persisted |-> << >>,
                       alone |-> TRUE]]
    /\ UNCHANGED <<file_bytes, result>>
    /\ Follow

\* the other processes that are between open() and close() are no longer
\* the only writer
Disturb(w, p) ==
    [q \in Workers |->
        IF q # p /\ w[q].pc = "dump" THEN [w[q] EXCEPT !.alone = FALSE]
        ELSE w[q]]

\* open(self.processed_papers_file, 'w') (line 60)
SaveOpen(p) ==
    /\ workers[p].pc = "save"
    /\ file_bytes' = [exists |-> TRUE, pieces |-> << >>]
    /\ workers' = Disturb(
          [workers EXCEPT ![p] =
              [@ EXCEPT !.pc = "dump", !.pos = 0,
                        !.persisted = LoadProcessedPapers(
                                          AbstractFile(file_bytes)),
                        !.alone = \A q \in Workers \ {p} :
                                     workers[q].pc # "dump"]], p)
    /\ UNCHANGED <<now, result>>
    /\ Follow

\* one write() of json.dump's output (line 61): the next n pieces
SaveWrite(p, n) ==
    /\ workers[p].pc = "dump"
    /\ n >= 1
    /\ workers[p].pos + n <= Len(Document(workers[p].ledger))
    /\ file_bytes' = [file_bytes EXCEPT !.pieces =
          WriteAt(@, workers[p].pos,
                  SubSeq(Document(workers[p].ledger),
                         workers[p].pos + 1, workers[p].pos + n))]
    /\ workers' = Disturb([workers EXCEPT ![p].pos = @ + n], p)
    /\ UNCHANGED <<now, result>>
    /\ Follow

\* the end of the with block: everything is written, the file is closed
SaveClose(p) ==
    /\ workers[p].pc = "dump"
    /\ workers[p].pos = Len(Document(workers[p].ledger))
    /\ workers' = [workers EXCEPT ![p] =
                      [ledger |-> workers[p].ledger, pc |-> "idle",
                       pos |-> 0, saved |-> TRUE,
                       alone |-> workers[p].alone]]
    /\ result' = [op |-> "saved", worker |-> p]
    /\ UNCHANGED <<now, file_bytes>>
    /\ Follow

\* process p dies between open() and close() and is started again:
\* __init__ loads the ledger from the file
Crash(p) ==
    /\ workers[p].pc = "dump"
    /\ now' = now + 1
    /\ workers' = [workers EXCEPT ![p] =
          IdleWorker(LoadProcessedPapers(AbstractFile(file_bytes)))]
    /\ result' = [op |-> "crash", worker |-> p,
                  in_flight |-> workers[p].in_flight,
                  persisted |-> workers[p].persisted,
                  alone |-> workers[p].alone,
                  loaded |-> LoadProcessedPapers(AbstractFile(file_bytes))]
    /\ UNCHANGED file_bytes
    /\ Follow

InitPersist ==
    /\ uploads = IngestFiles
    /\ processed_papers = << >>
    /\ processed_papers_file = NoFile
    /\ vectorstore \in BOOLEAN
    /\ qa_chain = vectorstore
    /\ collection = EmptyBag
    /\ now = 0
    /\ result = [op |-> "init"]
    /\ ProcessorOnlyInit

NextPersist ==
    \/ \E p \in Workers, f \in IngestFiles :
          now < MaxPersistOps /\ BeginProcess(p, f)
    \/ \E p \in Workers : now < MaxPersistOps /\ BeginClear(p)
    \/ \E p \in Workers : SaveOpen(p)
    \/ \E p \in Workers, n \in 1..(MaxPersistOps + 2) : SaveWrite(p, n)
    \/ \E p \in Workers : SaveClose(p)
    \/ \E p \in Workers : now < MaxPersistOps /\ Crash(p)

SpecPersist == InitPersist /\ [][NextPersist]_vars

----------------------------------------------------------------------------
(* Properties                                                              *)

\* a process_pdf return value is a structured result
Structured(ret) ==
    \/ ret.status = "success"
    \/ ret.status = "error" /\ ret.error \in {ErrorOf(st) : st \in Stages}

Record(d, f) == d[KeyIndex(d, f)]

IsProcessed(d, f) == HasKey(d, f) /\ Record(d, f).status = "processed"

\* C1: process_pdf never raises to its caller; whether the loader, the
\* chunker or the index add fails, an upload and every file of a reprocess
\* get a result whose status is success, or error with the error message.
C1_ProcessNeverRaises ==
    /\ (result.op = "upload" /\ result.http = 200) =>
          /\ ~result.raised
          /\ Structured(result.processing_result)
          /\ result.processing_result.filename = result.filename
    /\ result.op = "reprocess" =>
          /\ ~result.process_raised
          /\ result.status = "completed" =>
                \A i \in 1..Len(result.results) : Structured(result.results[i])

\* an upload whose processing failed in the chunker came back as an error result
C1_Witness ==
    /\ result.op = "upload"
    /\ result.http = 200
    /\ result.processing_result.status = "error"
    /\ result.processing_result.error = "ChunkError"

\* C2: when process_pdf fails, the ledger afterwards holds a record for that
\* file name with status error.
C2_FailureRecorded ==
    (/\ result.op = "upload"
     /\ result.http = 200
     /\ result.processing_result.status = "error")
    => /\ HasKey(processed_papers, result.filename)
       /\ Record(processed_papers, result.filename).status = "error"

\* C3: after reprocess_all_papers completes, the ledger holds exactly one
\* record for each PDF in upload storage and none for another file name,
\* whether or not files fail to process.
C3_LedgerMatchesUploads ==
    (result.op = "reprocess" /\ result.status = "completed")
    => /\ Keys(processed_papers) = uploads
       /\ Len(processed_papers) = Cardinality(uploads)

\* C4: after reprocess_all_papers completes, the collection holds no entry
\* that was in it when the call began.
C4_NoStaleEntries ==
    (result.op = "reprocess" /\ result.status = "completed")
    => \A e \in BagToSet(collection) : ~e.stale

\* C5: a file is recorded as processed only if the collection holds chunks
\* of it, and the collection holds chunks only of files that have a record.
C5_ProcessedIffIndexed ==
    \A f \in Files :
        /\ IsProcessed(processed_papers, f) => f \in SourcesIn(collection)
        /\ f \in SourcesIn(collection) => HasKey(processed_papers, f)

\* C6: whenever the index path of query_papers retrieves no entry (index
\* unavailable, search with zero entries, failure at query time), the
\* result comes from the fallback keyword search.
C6_FallbackWhenNothingRetrieved ==
    (result.op = "query" /\ result.hist.retrieved = 0)
    => result.path = "fallback"

\* C7: a query_papers call makes at most one completion-provider call.
C7_AtMostOneCompletionCall ==
    result.op = "query" => result.hist.llm_calls <= 1

\* a query answered from retrieved entries made exactly one call
C7_Witness ==
    /\ result.op = "query"
    /\ result.path = "index"
    /\ result.hist.retrieved > 0
    /\ result.hist.llm_calls = 1

\* C8: if the completion provider fails at any step of query_papers, the
\* answer is the apology with the error detail, the sources are empty and
\* nothing is raised.
C8_ApologyOnProviderFailure ==
    (result.op = "query" /\ result.hist.provider_failed)
    => /\ ~result.raised
       /\ result.answer.kind = "sorry"
       /\ result.answer.detail \in {"ProviderError", "ClientError"}
       /\ result.sources = << >>

\* the processed papers that score above zero for a question
PositivePapers(d, question) ==
    {f \in Keys(d) : IsProcessed(d, f) /\ RelevanceScore(question, f) > 0}

\* the index path gave no entry: unavailable, or searched with zero entries
IndexGaveNothing(r) ==
    /\ r.hist.index \in {"unavailable", "searched"}
    /\ r.hist.retrieved = 0

Min(a, b) == IF a < b THEN a ELSE b

\* C9: when the index path gives nothing and some processed paper scores
\* above zero, the answer cites min(3, number of such papers) papers in
\* rank order, each by file name with its two links.
C9_OneCitationPerCandidate ==
    (/\ result.op = "query"
     /\ IndexGaveNothing(result)
     /\ ~result.hist.provider_failed
     /\ result.hist.unreadable = {}
     /\ PositivePapers(processed_papers, result.question) # {}
     /\ PositivePapers(processed_papers, result.question) \subseteq uploads)
    => LET pos == PositivePapers(processed_papers, result.question)
           src == result.sources
       IN  /\ Len(src) = Min(TopPapers, Cardinality(pos))
           /\ \A i \in 1..Len(src) :
                 /\ src[i].source \in pos
                 /\ src[i].pdf_link = PdfLink(src[i].source)
                 /\ src[i].summary_link = SummaryLink(src[i].source)
           /\ \A i, j \in 1..Len(src) :
                 i < j => /\ src[i].source # src[j].source
                          /\ RelevanceScore(result.question, src[i].source)
                             >= RelevanceScore(result.question, src[j].source)
           /\ \A f \in pos :
                 (\A i \in 1..Len(src) : src[i].source # f)
                 => \A i \in 1..Len(src) :
                       RelevanceScore(result.question, src[i].source)
                       >= RelevanceScore(result.question, f)

\* C10: when no processed paper scores above zero and the index is empty or
\* unavailable, the answer carries exactly one source, the general-knowledge
\* marker, without paper links.
C10_GeneralAnswer ==
    (/\ result.op = "query"
     /\ IndexGaveNothing(result)
     /\ ~result.hist.provider_failed
     /\ PositivePapers(processed_papers, result.question) = {})
    => /\ result.path = "fallback"
       /\ Len(result.sources) = 1
       /\ result.sources[1].source = "AI Knowledge Base"
       /\ DOMAIN result.sources[1] = {"content", "source", "chunk_id"}

\* C13: reprocess_all_papers is not ended by a file that fails: unless
\* clearing the collection itself failed, the call completes, its result
\* list has one entry for each PDF in upload storage and total_files is its
\* length, an entry of a failing file carries the error, and the files
\* after a failing one are processed and recorded.
C13_ReprocessNeverAborts ==
    (result.op = "reprocess"
     /\ (result.status = "completed" \/ result.process_raised))
    => /\ result.status = "completed"
       /\ result.total_files = Len(result.results)
       /\ Len(result.results) = Cardinality(uploads)
       /\ {result.results[i].filename : i \in 1..Len(result.results)} = uploads
       /\ \A i \in 1..Len(result.results) :
             LET r == result.results[i]
             IN  /\ Structured(r)
                 /\ r.status = "success"
                       => IsProcessed(processed_papers, r.filename)
                 /\ r.status = "error"
                       => ~IsProcessed(processed_papers, r.filename)

\* a reprocess whose first file failed and whose second file was processed
C13_Witness ==
    /\ result.op = "reprocess"
    /\ result.status = "completed"
    /\ Len(result.results) = 2
    /\ result.results[1].status = "error"
    /\ result.results[2].status = "success"
    /\ IsProcessed(processed_papers, result.results[2].filename)

\* the file names of the records of d with status processed, in d's order
RECURSIVE ProcessedNames(_)
ProcessedNames(d) ==
    IF d = << >> THEN << >>
    ELSE IF Head(d).status = "processed"
         THEN <<Head(d).filename>> \o ProcessedNames(Tail(d))
         ELSE ProcessedNames(Tail(d))

\* C17: list_processed_papers returns one item for each ledger record
\* whose status is processed, in ledger order, with that record's data, no
\* item for a record with another status, and leaves the ledger and its
\* file as they were.
C17_ListsProcessedInOrder ==
    [][(now' = now + 1 /\ result'.op = "list")
       => /\ processed_papers' = processed_papers
          /\ processed_papers_file' = processed_papers_file
          /\ [i \in 1..Len(result'.papers) |-> result'.papers[i].filename]
                = ProcessedNames(processed_papers)
          /\ \A i \in 1..Len(result'.papers) :
                LET p == result'.papers[i]
                    rec == Record(processed_papers, p.filename)
                IN  /\ rec.status = "processed"
                    /\ p.processed
                    /\ p.status = "available"
                    /\ p.processed_at = rec.processed_at
                    /\ p.chunks_processed = rec.chunks_processed]_vars

\* a listing of two papers out of a ledger that also holds an error record
\* between them
C17_Witness ==
    /\ result.op = "list"
    /\ Len(result.papers) = 2
    /\ Len(processed_papers) = 3
    /\ processed_papers[1].status = "processed"
    /\ processed_papers[2].status = "error"
    /\ processed_papers[3].status = "processed"
    /\ result.papers[1].filename = processed_papers[1].filename

\* the papers the keyword search of a query could score: processed, on
\* disk, readable, and scoring above zero
Candidates(r) ==
    {f \in PositivePapers(processed_papers, r.question) :
        f \in uploads /\ f \notin r.hist.unreadable}

\* f ranks before g: higher score, or equal score and earlier in the ledger
RanksBefore(question, f, g) ==
    \/ RelevanceScore(question, f) > RelevanceScore(question, g)
    \/ /\ RelevanceScore(question, f) = RelevanceScore(question, g)
       /\ KeyIndex(processed_papers, f) < KeyIndex(processed_papers, g)

\* C18: when the fallback keyword search answers, the papers it cites are
\* processed papers scoring above zero, at most three of them, in
\* descending score with equal scores in ledger order, and every candidate
\* left out ranks after every paper cited; it cites no paper exactly when
\* there is no candidate.
C18_TopThreeStable ==
    (/\ result.op = "query"
     /\ result.path = "fallback"
     /\ result.answer.kind = "completion")
    => LET cand == Candidates(result)
           src == result.sources
       IN  IF cand = {}
           THEN src = <<GeneralSource>>
           ELSE /\ Len(src) = Min(TopPapers, Cardinality(cand))
                /\ \A i \in 1..Len(src) : src[i].source \in cand
                /\ \A i, j \in 1..Len(src) :
                      i < j => RanksBefore(result.question,
                                           src[i].source, src[j].source)
                /\ \A f \in cand :
                      (\A i \in 1..Len(src) : src[i].source # f)
                      => \A i \in 1..Len(src) :
                            RanksBefore(result.question, src[i].source, f)

\* a fallback answer citing three papers, two of them with equal scores,
\* while a fourth candidate was left out
C18_Witness ==
    /\ result.op = "query"
    /\ result.path = "fallback"
    /\ result.answer.kind = "completion"
    /\ Len(result.sources) = TopPapers
    /\ Cardinality(Candidates(result)) > TopPapers
    /\ \E i \in 1..(TopPapers - 1) :
          RelevanceScore(result.question, result.sources[i].source)
          = RelevanceScore(result.question, result.sources[i + 1].source)

\* C11: get_paper_summary for a file name without a ledger record fails
\* with not-found (status 404) and makes no completion call.
C11_SummaryNotFound ==
    (result.op = "summary" /\ ~HasKey(processed_papers, result.filename))
    => /\ result.http = 404
       /\ result.llm_calls = 0

\* C19: for a file name with a ledger record, every source of the summary
\* names that file.
C19_SummaryCitesOnlyThatPaper ==
    (result.op = "summary" /\ HasKey(processed_papers, result.filename))
    => \A i \in 1..Len(result.sources) :
          result.sources[i].source = result.filename

AdminOnly == {"POST /upload", "POST /reprocess"}

TokenProtected ==
    {"GET /papers", "POST /chat", "GET /paper/{filename}",
     "GET /paper/{filename}/summary"}

\* C12: a chat request whose message is empty or whitespace only is
\* answered with status 400, and query_papers is not called for it.
C12_EmptyMessageIs400 ==
    (result.op = "chat" /\ Strip(result.question) = << >>)
    => /\ result.http = 400
       /\ ~result.engine_called

\* C16: on an admin-only route every token but the admin token gets 403
\* and the admin token passes; on every other token-protected route the
\* admin token and the public token pass and every other token gets 401;
\* for every setting of the two environment variables.
C16_TokenDecisionTable ==
    /\ request.endpoint \in AdminOnly =>
          IF request.token = ADMIN_TOKEN
          THEN result.op # "denied"
          ELSE result.op = "denied" /\ result.http = 403
    /\ request.endpoint \in TokenProtected =>
          IF request.token \in {ADMIN_TOKEN, PUBLIC_TOKEN}
          THEN result.op # "denied"
          ELSE result.op = "denied" /\ result.http = 401

\* C14: when the only server process dies while it saves the ledger after
\* processing a file, the ledger loaded afterwards holds every record the
\* file held before that save, unchanged, except the record of the file
\* being processed.
C14_CrashKeepsOtherRecords ==
    (/\ result.op = "crash"
     /\ result.in_flight # "none"
     /\ result.alone
     /\ \A q \in Workers \ {result.worker} : workers[q] = IdleWorker(<< >>))
    => \A f \in Keys(result.persisted) \ {result.in_flight} :
          /\ HasKey(result.loaded, f)
          /\ Record(result.loaded, f) = Record(result.persisted, f)

\* C15: when no process is saving and each has completed a save since it
\* started, the file is a complete document holding the mapping one of
\* them wrote.
C15_FileIsOneWritersDocument ==
    (\A p \in Workers : workers[p].pc = "idle" /\ workers[p].saved)
    => \E p \in Workers : file_bytes.pieces = Document(workers[p].ledger)

====
